---- MODULE Spec2Model ----
(***************************************************************************)
(* Deterministic execution runtime of the generative-art playground:       *)
(*   - SeededRandomGenerator and the module-level globalRNG                *)
(*     (src/utils/seededRNG.ts),                                           *)
(*   - AnimationTimeline (utils/animationUtils),                           *)
(*   - the per-frame loops of P5Renderer and ThreeRenderer,                *)
(*   - the @param declarations and the ParameterPanel reconciliation,      *)
(*   - the compilation of the code and the renderer branch of Playground,  *)
(*   - the text functions of the parameter parser (option lists, injection *)
(*     of values into the code),                                           *)
(*   - the AnimationPanel and the timelines it creates.                    *)
(* Each subsystem has its own specification (SpecRNG, SpecClock,           *)
(* SpecRender, SpecParams, SpecCompile, SpecText, SpecPanel); the          *)
(* variables of the other subsystems stay at their initial values.         *)
(***************************************************************************)
EXTENDS Integers, Sequences, FiniteSets, TLC

VARIABLES
    \* ---- seededRNG.ts ----
    globalRNG,    \* the module-level instance (export let globalRNG)
    localRNG,     \* a second instance held by a caller (new / fromSeed / clone)
    ctorArg,      \* history: the seed argument each instance was constructed with
    drawn,        \* history: raw random() outputs of each instance since its last (re)seeding
    rngHist,      \* history: per instance, whether it was reset and whether it had drawn before
    result        \* return value of the last stream operation

rngVars == <<globalRNG, localRNG, ctorArg, drawn, rngHist, result>>

VARIABLES
    \* ---- AnimationTimeline and its host ----
    timeline,     \* the fields of the AnimationTimeline instance
    host,         \* requestAnimationFrame state: queue, running (this frame)
    now,          \* performance.now(), in steps
    frameDone,    \* the host has delivered the animation frame of the instant `now`
    tick,         \* history: what onFrame observed when it was last invoked
    clockHist     \* history: calls = the API calls made by the handler that has just run
                  \* (none after a host step); stopped = stop() was called and no play()
                  \* has started the clock since; overrun = the handler that has just run
                  \* was an animate() that computed elapsed >= duration; apiSince = an API
                  \* call changed the clock since onFrame was last entered; rebased = a
                  \* loop rebase happened at or after the last onFrame; pausedAt = the
                  \* instant of the pause() that put the clock in Paused; resumed =
                  \* what the resume() that has just run from outside a frame found;
                  \* seek = k + 1 when seekTo(k / SeekDen) was the last call and the
                  \* instant is still that of the call

clockVars == <<timeline, host, now, frameDone, tick, clockHist>>

VARIABLES
    \* ---- P5Renderer, ThreeRenderer ----
    project,      \* currentProject / compiledSketch: type, seed, whether the code defines setup, draw
    mounted,      \* the renderer component is mounted
    p5Instance,   \* p5InstanceRef.current and the p object: live, setup, draw, didSetup,
                  \* userSetups = how often the user's setup has been invoked
    three,        \* ThreeRenderer refs: rendererRef, cleanupFnRef, animationIdRef, lastFrameTimeRef;
                  \* history: teardownCalls = how often the function held in cleanupFnRef
                  \* has been invoked
    rhost,        \* host of the three.js loop: outstanding animate callbacks, time
    frameTrace    \* history: what the handler that has just run did, in order

renderVars == <<project, mounted, p5Instance, three, rhost, frameTrace>>

VARIABLES
    \* ---- useProjectStore parameters, ParameterPanel ----
    parameters,   \* currentProject.parameters
    code,         \* currentProject.code, as the @param declarations it holds
    effectDue,    \* the ParameterPanel effect has to run (code or parameters changed)
    lastPass      \* history: the run of the effect that has just happened: inputs, result, store calls

paramVars == <<parameters, code, effectDue, lastPass>>

VARIABLES
    \* ---- Playground: compilation of the sketch ----
    editor,         \* currentProject as the compiler reads it: type, code
    compiledSketch, \* the value of the compiledSketch memo
    currentError,   \* store: currentError
    shown,          \* what the renderer branch of Playground renders
    compileHist     \* history: the handler that has just run, whether compilation threw to
                    \* its caller, the last artifact a compilation produced

compileVars == <<editor, compiledSketch, currentError, shown, compileHist>>

VARIABLES
    \* ---- parameterParser: texts ----
    annotation,   \* input of parseParameterOptions: the kind and the bracket's text
    parsedParam,  \* the ParsedParameter after parseParameterOptions, NoParam before
    program,      \* input of injectParametersIntoCode: the source text and the parameters
    injected      \* its result and the parameters after the call, NoOutput before

textVars == <<annotation, parsedParam, program, injected>>

VARIABLES
    \* ---- AnimationPanel and the timelines it has created ----
    panel,        \* component state: timeline (0 = null, else an index of `timelines`),
                  \* isPlaying; store: isAnimated, animationSettings
    timelines,    \* every AnimationTimeline the panel's effect has constructed
    phost,        \* requestAnimationFrame state shared by these timelines
    ptime,        \* performance.now() in steps, and whether this instant's frame was delivered
    emitted       \* history: the last 'animationFrame' event: the timeline it came from,
                  \* whether that was the panel's timeline, whether Stop had been pressed
                  \* and Play not since; stopPressed = that last condition, now

panelVars == <<panel, timelines, phost, ptime, emitted>>

vars == <<rngVars, clockVars, renderVars, paramVars, compileVars, textVars, panelVars>>

\* what the operations of one part of the program leave alone
exceptRNG == <<clockVars, renderVars, paramVars, compileVars, textVars, panelVars>>
exceptClock == <<rngVars, renderVars, paramVars, compileVars, textVars, panelVars>>
exceptRender == <<clockVars, paramVars, compileVars, textVars, panelVars>>
exceptParams == <<rngVars, clockVars, renderVars, compileVars, textVars, panelVars>>
exceptCompile == <<rngVars, clockVars, renderVars, paramVars, textVars, panelVars>>
exceptText == <<rngVars, clockVars, renderVars, paramVars, compileVars, panelVars>>
exceptPanel == <<rngVars, clockVars, renderVars, paramVars, compileVars, textVars>>

Min(a, b) == IF a < b THEN a ELSE b
Max(a, b) == IF a > b THEN a ELSE b

(***************************************************************************)
(* Bounds                                                                  *)
(***************************************************************************)
MaxDraws == 3        \* raw draws recorded per instance between two reseedings

(***************************************************************************)
(* Seeds are strings; a string is modelled as the sequence of its          *)
(* character codes, the empty string as <<>>.                              *)
(***************************************************************************)
EmptySeed == <<>>
UserSeeds == {<<>>, <<1>>, <<1, 2>>}
\* strings generateSeed() can produce (Math.random() based, never empty)
GeneratedSeeds == {<<3>>, <<3, 1>>}

(***************************************************************************)
(* The seedrandom library: seedrandom(seed) derives a generator state from *)
(* the seed string alone; each call of the generator returns a float in    *)
(* [0,1) and advances the state by one step.  The generator is modelled as *)
(* a full-period congruential generator modulo RngMod; a float is the      *)
(* numerator of a fraction over RngMod.                                    *)
(***************************************************************************)
RngMod == 16
RngMul == 5
RngInc == 3

RECURSIVE SeedHash(_, _)
SeedHash(seed, h) ==
    IF seed = <<>> THEN h
    ELSE SeedHash(Tail(seed), (h * 7 + Head(seed)) % RngMod)

seedrandom(seed) == SeedHash(seed, 1)

rngOutput(state) == state
rngStep(state) == (state * RngMul + RngInc) % RngMod

(***************************************************************************)
(* SeededRandomGenerator.  An instance is a record of its fields; an       *)
(* operation returns the instance after the call, the value returned and   *)
(* the raw generator outputs it consumed.                                  *)
(***************************************************************************)
generateSeedOutcomes == GeneratedSeeds

\* constructor(seed?): this.seed = seed || this.generateSeed(); the empty
\* string is falsy, so it is replaced by a generated seed (gen).
SeededRandomGenerator(given, seed, gen) ==
    LET s == IF given /\ seed # EmptySeed THEN seed ELSE gen
    IN  [seed |-> s, originalSeed |-> s, rng |-> seedrandom(s)]

random(g) ==
    [g |-> [g EXCEPT !.rng = rngStep(g.rng)],
     val |-> rngOutput(g.rng),
     outs |-> <<rngOutput(g.rng)>>]

\* min + random() * (max - min), as a numerator over RngMod
randomRange(g, min, max) ==
    LET r == random(g)
    IN  [g |-> r.g, val |-> min * RngMod + r.val * (max - min), outs |-> r.outs]

\* Math.floor(randomRange(min, max + 1))
randomInt(g, min, max) ==
    LET r == randomRange(g, min, max + 1)
    IN  [g |-> r.g, val |-> r.val \div RngMod, outs |-> r.outs]

Undefined == 0 - 1

\* array[randomInt(0, array.length - 1)]; arrays are 1-based here
choice(g, array) ==
    LET r == randomInt(g, 0, Len(array) - 1)
    IN  [g |-> r.g,
         val |-> IF r.val + 1 \in DOMAIN array THEN array[r.val + 1] ELSE Undefined,
         outs |-> r.outs]

\* a swap that loses the element at i
SwapOverwrite(a, i, j) == [a EXCEPT ![i] = a[j]]

\* [shuffled[i], shuffled[j]] = [shuffled[j], shuffled[i]]
Swap(a, i, j) == [a EXCEPT ![i] = a[j], ![j] = a[i]]

\* for (i = length - 1; i > 0; i--) { j = randomInt(0, i); swap(i, j) }
\* i is the 0-based index of the source
RECURSIVE shuffleLoop(_, _, _, _)
shuffleLoop(g, shuffled, i, outs) ==
    IF i <= 0 THEN [g |-> g, val |-> shuffled, outs |-> outs]
    ELSE LET r == randomInt(g, 0, i)
         IN  shuffleLoop(r.g, Swap(shuffled, i + 1, r.val + 1), i - 1, outs \o r.outs)

\* const shuffled = [...array]: the loop works on a copy, `array` is the
\* caller's array as the call leaves it
shuffle(g, array) ==
    LET r == shuffleLoop(g, array, Len(array) - 1, <<>>)
    IN  [g |-> r.g, val |-> r.val, outs |-> r.outs, array |-> array]

\* a reset that keeps the draw cursor
resetKeepsCursor(g) == g

reset(g) == [g EXCEPT !.rng = seedrandom(g.originalSeed)]

clone(g, gen) == SeededRandomGenerator(TRUE, g.seed, gen)

fromSeed(seed, gen) == SeededRandomGenerator(TRUE, seed, gen)

(***************************************************************************)
(* What a freshly constructed stream with the given seed draws.            *)
(***************************************************************************)
RECURSIVE FreshDraws(_, _)
FreshDraws(state, n) ==
    IF n = 0 THEN <<>> ELSE <<rngOutput(state)>> \o FreshDraws(rngStep(state), n - 1)

(***************************************************************************)
(* Inputs of the stream operations                                         *)
(***************************************************************************)
Instances == {"global", "local"}
RangeArgs == {<<0, 3>>, <<2, 5>>}
Arrays == {<<>>, <<7>>, <<7, 8, 8>>}

Inst(which) == IF which = "global" THEN globalRNG ELSE localRNG

NoArg == [given |-> FALSE, seed |-> EmptySeed]
NoResult == [op |-> "none"]

\* the instance `which` becomes g after an operation that consumed outs
SetInst(which, g, outs, val) ==
    /\ Len(drawn[which]) + Len(outs) <= MaxDraws
    /\ globalRNG' = IF which = "global" THEN g ELSE globalRNG
    /\ localRNG' = IF which = "local" THEN g ELSE localRNG
    /\ drawn' = [drawn EXCEPT ![which] = @ \o outs]
    /\ result' = val
    /\ UNCHANGED <<ctorArg, rngHist, exceptRNG>>

\* the instance `which` is replaced by a newly constructed one
NewInst(which, g, arg) ==
    /\ globalRNG' = IF which = "global" THEN g ELSE globalRNG
    /\ localRNG' = IF which = "local" THEN g ELSE localRNG
    /\ ctorArg' = [ctorArg EXCEPT ![which] = arg]
    /\ drawn' = [drawn EXCEPT ![which] = <<>>]
    /\ rngHist' = [rngHist EXCEPT ![which] = [prior |-> FALSE, reset |-> FALSE]]
    /\ result' = NoResult
    /\ UNCHANGED exceptRNG

Random(which) ==
    LET r == random(Inst(which))
    IN  SetInst(which, r.g, r.outs, [op |-> "random", val |-> r.val])

RandomRange(which) ==
    \E a \in RangeArgs :
        LET r == randomRange(Inst(which), a[1], a[2])
        IN  SetInst(which, r.g, r.outs, [op |-> "randomRange", arg |-> a, val |-> r.val])

RandomInt(which) ==
    \E a \in RangeArgs :
        LET r == randomInt(Inst(which), a[1], a[2])
        IN  SetInst(which, r.g, r.outs, [op |-> "randomInt", arg |-> a, val |-> r.val])

Choice(which) ==
    \E arr \in Arrays :
        LET r == choice(Inst(which), arr)
        IN  SetInst(which, r.g, r.outs, [op |-> "choice", arg |-> arr, val |-> r.val])

Shuffle(which) ==
    \E arr \in Arrays :
        LET r == shuffle(Inst(which), arr)
        IN  SetInst(which, r.g, r.outs,
                    [op |-> "shuffle", arg |-> arr, val |-> r.val, after |-> r.array])

Reset(which) ==
    /\ globalRNG' = IF which = "global" THEN reset(globalRNG) ELSE globalRNG
    /\ localRNG' = IF which = "local" THEN reset(localRNG) ELSE localRNG
    /\ rngHist' = [rngHist EXCEPT ![which] =
                     [prior |-> @.prior \/ drawn[which] # <<>>, reset |-> TRUE]]
    /\ drawn' = [drawn EXCEPT ![which] = <<>>]
    /\ result' = NoResult
    /\ UNCHANGED <<ctorArg, exceptRNG>>

\* new SeededRandomGenerator(seed) / SeededRandomGenerator.fromSeed(seed)
FromSeed ==
    \E seed \in UserSeeds, gen \in generateSeedOutcomes :
        NewInst("local", fromSeed(seed, gen), [given |-> TRUE, seed |-> seed])

\* globalRNG.clone()
Clone ==
    \E gen \in generateSeedOutcomes :
        NewInst("local", clone(globalRNG, gen), [given |-> TRUE, seed |-> globalRNG.seed])

\* setGlobalSeed(seed): globalRNG = new SeededRandomGenerator(seed)
SetGlobalSeed ==
    \E seed \in UserSeeds, gen \in generateSeedOutcomes :
        NewInst("global", SeededRandomGenerator(TRUE, seed, gen), [given |-> TRUE, seed |-> seed])

\* module load: globalRNG = new SeededRandomGenerator(); the caller's
\* instance is likewise constructed without a seed (useProjectStore)
InitRNG ==
    /\ \E gen \in generateSeedOutcomes : globalRNG = SeededRandomGenerator(FALSE, EmptySeed, gen)
    /\ \E gen \in generateSeedOutcomes : localRNG = SeededRandomGenerator(FALSE, EmptySeed, gen)
    /\ ctorArg = [w \in Instances |-> NoArg]
    /\ drawn = [w \in Instances |-> <<>>]
    /\ rngHist = [w \in Instances |-> [prior |-> FALSE, reset |-> FALSE]]
    /\ result = NoResult

NextRNG ==
    \/ \E w \in Instances : Random(w)
    \/ \E w \in Instances : RandomRange(w)
    \/ \E w \in Instances : RandomInt(w)
    \/ \E w \in Instances : Choice(w)
    \/ \E w \in Instances : Shuffle(w)
    \/ \E w \in Instances : Reset(w)
    \/ FromSeed
    \/ Clone
    \/ SetGlobalSeed


(***************************************************************************)
(* AnimationTimeline (animationUtils).                                     *)
(*                                                                         *)
(* Time is counted in steps; StepsPerSecond steps make one second, so a    *)
(* timestamp in milliseconds is (steps * 1000) / StepsPerSecond.  The host *)
(* delivers animation frames: requestAnimationFrame appends a callback to  *)
(* the host's list, a frame takes the callbacks registered so far and runs *)
(* them in registration order with the frame's timestamp, and              *)
(* cancelAnimationFrame removes a callback that has not run yet.           *)
(***************************************************************************)

StepsPerSecond == 2
SeekDen == 2         \* seekTo is called with k / SeekDen
MaxTime == 4         \* performance.now() stops advancing here
MaxStart == 5        \* resume() is not called when it would move startTime beyond this

Durations == {1, 2}  \* seconds
FpsValues == {3}
Null == 0            \* animationId: number | null; request ids start at 1

DurSteps(tl) == tl.duration * StepsPerSecond

\* constructor(duration, fps, loop, easing = 'linear')
AnimationTimeline(duration, fps, loop) ==
    [startTime |-> 0, currentTime |-> 0, isPlaying |-> FALSE, isPaused |-> FALSE,
     animationId |-> Null, duration |-> duration, fps |-> fps, loop |-> loop,
     easing |-> "linear"]

\* easingFunctions.linear: t => t (on numerators)
linear(t) == t

\* getNormalizedTime without the Math.min clamp
getNormalizedTimeUnclamped(tl) ==
    [num |-> tl.currentTime - tl.startTime, den |-> Max(DurSteps(tl), 1)]

\* getNormalizedTime(): a fraction num / den
getNormalizedTime(tl) ==
    IF tl.duration = 0 THEN [num |-> 0, den |-> 1]
    ELSE LET elapsed == tl.currentTime - tl.startTime
             t == Min(elapsed, DurSteps(tl))                \* Math.min(elapsed / duration, 1)
             w == IF tl.loop /\ t >= DurSteps(tl) THEN t % DurSteps(tl) ELSE t
         IN  [num |-> linear(w), den |-> DurSteps(tl)]

\* getCurrentFrame wrapping at getTotalFrames()
getCurrentFrameWrapped(tl) ==
    (((tl.currentTime - tl.startTime) * tl.fps) \div StepsPerSecond) % (tl.duration * tl.fps)

\* getCurrentFrame(): Math.floor(elapsed * fps)
getCurrentFrame(tl) ==
    ((tl.currentTime - tl.startTime) * tl.fps) \div StepsPerSecond

\* A request id is a handle of which only equality matters: the host hands
\* out the least id that no outstanding callback has and that the timeline
\* does not still hold in animationId.
HostIds(h) == {h.queue[i].id : i \in DOMAIN h.queue} \cup {h.running[i].id : i \in DOMAIN h.running}

FreshId(h, held) ==
    CHOOSE i \in 1..(Len(h.queue) + Len(h.running) + 2) :
        /\ i \notin HostIds(h) \cup {held}
        /\ \A j \in 1..(i - 1) : j \in HostIds(h) \cup {held}

\* host.requestAnimationFrame(animate): cb tells whether the animate closure
\* was created by a play(onFrame) that was given an onFrame
requestAnimationFrame(h, cb, held) ==
    [host |-> [h EXCEPT !.queue = Append(@, [id |-> FreshId(h, held), cb |-> cb])],
     id |-> FreshId(h, held)]

cancelAnimationFrame(h, id) ==
    [h EXCEPT !.queue = SelectSeq(@, LAMBDA e : e.id # id),
              !.running = SelectSeq(@, LAMBDA e : e.id # id)]

\* play without the isPlaying guard
playUnguarded(w, onFrame, t) ==
    LET r == requestAnimationFrame(w.host, onFrame, w.tl.animationId)
    IN  [tl |-> [w.tl EXCEPT !.isPlaying = TRUE, !.isPaused = FALSE,
                             !.startTime = t, !.animationId = r.id],
         host |-> r.host]

\* A world is the timeline together with the host: w = [tl, host].
play(w, onFrame, t) ==
    IF w.tl.isPlaying THEN w
    ELSE LET r == requestAnimationFrame(w.host, onFrame, w.tl.animationId)
         IN  [tl |-> [w.tl EXCEPT !.isPlaying = TRUE, !.isPaused = FALSE,
                                  !.startTime = t, !.animationId = r.id],
              host |-> r.host]

\* pause without the isPlaying guard
pauseUnguarded(w) ==
    IF w.tl.isPaused THEN w
    ELSE [tl |-> [w.tl EXCEPT !.isPaused = TRUE, !.animationId = Null],
          host |-> cancelAnimationFrame(w.host, w.tl.animationId)]

pause(w) ==
    IF ~w.tl.isPlaying \/ w.tl.isPaused THEN w
    ELSE IF w.tl.animationId # Null
         THEN [tl |-> [w.tl EXCEPT !.isPaused = TRUE, !.animationId = Null],
               host |-> cancelAnimationFrame(w.host, w.tl.animationId)]
         ELSE [w EXCEPT !.tl.isPaused = TRUE]

\* this.isPaused = false; this.startTime += performance.now() - this.currentTime;
\* this.play()   -- without an onFrame
resume(w, t) ==
    IF ~w.tl.isPaused THEN w
    ELSE play([w EXCEPT !.tl.isPaused = FALSE,
                        !.tl.startTime = @ + (t - w.tl.currentTime)], FALSE, t)

\* cancels the scheduled callback, if any, and resets the fields
stop(w) ==
    IF w.tl.animationId # Null
    THEN [tl |-> [w.tl EXCEPT !.isPlaying = FALSE, !.isPaused = FALSE, !.animationId = Null],
          host |-> cancelAnimationFrame(w.host, w.tl.animationId)]
    ELSE [w EXCEPT !.tl.isPlaying = FALSE, !.tl.isPaused = FALSE]

\* a seekTo that does not read performance.now()
seekToAbsolute(w, k, t) ==
    [w EXCEPT !.tl.startTime = (k * DurSteps(w.tl)) \div SeekDen]

\* seekTo(k / SeekDen): startTime = performance.now() - normalizedTime * duration * 1000
seekTo(w, k, t) ==
    [w EXCEPT !.tl.startTime = t - (k * DurSteps(w.tl)) \div SeekDen]

ClockStateOf(tl) ==
    IF ~tl.isPlaying THEN "Idle" ELSE IF tl.isPaused THEN "Paused" ELSE "Playing"

\* the calls an onFrame callback may make on the timeline it is handed
Reentrant == {"none", "play", "pause", "resume", "stop", "seekTo"}

Call(w, op, k, t) ==
    CASE op = "play" -> play(w, TRUE, t)
      [] op = "pause" -> pause(w)
      [] op = "resume" -> resume(w, t)
      [] op = "stop" -> stop(w)
      [] op = "seekTo" -> seekTo(w, k, t)
      [] OTHER -> w

CallRecord(op, before, after) ==
    [op |-> op, pre |-> ClockStateOf(before.tl), post |-> ClockStateOf(after.tl)]

\* the animate closure of play(): one invocation by the host with timestamp
\* currentTime; cb tells whether onFrame is defined, op is what onFrame calls
\* re-entrantly.  Returns the world and what happened.  `slack` is 0 in the
\* source: the run continues while elapsed < duration.
animateBody(w, cb, currentTime, op, k, slack) ==
    LET w1 == [w EXCEPT !.tl.currentTime = currentTime]
        w2 == IF cb THEN Call(w1, op, k, currentTime) ELSE w1
        elapsed == currentTime - w2.tl.startTime
        again == elapsed < DurSteps(w2.tl) + slack \/ w2.tl.loop
        rebase == w2.tl.loop /\ elapsed >= DurSteps(w2.tl)
        r == requestAnimationFrame(w2.host, cb, w2.tl.animationId)
        w3 == IF again
              THEN [tl |-> [w2.tl EXCEPT !.animationId = r.id,
                                         !.startTime = IF rebase THEN currentTime ELSE @],
                    host |-> r.host]
              ELSE stop(w2)
    IN  [w |-> w3,
         observed |-> [time |-> getNormalizedTime(w1.tl), frame |-> getCurrentFrame(w1.tl),
                       elapsed |-> currentTime - w1.tl.startTime],
         apiCall |-> w2 # w1,
         overrun |-> elapsed >= DurSteps(w2.tl),
         calls |-> (IF cb /\ op # "none" THEN <<CallRecord(op, w1, w2)>> ELSE <<>>)
                   \o (IF again THEN <<>> ELSE <<CallRecord("stop", w2, w3)>>),
         final |-> ~again,
         rebased |-> rebase]

\* animate that continues while elapsed <= duration
animateLate(w, cb, currentTime, op, k) == animateBody(w, cb, currentTime, op, k, 1)

animate(w, cb, currentTime, op, k) == animateBody(w, cb, currentTime, op, k, 0)

World == [tl |-> timeline, host |-> host]

NoTick ==
    [valid |-> FALSE, time |-> [num |-> 0, den |-> 1], frame |-> 0, elapsed |-> 0,
     decreased |-> FALSE, afterRebase |-> FALSE, afterSeek |-> 0]

NoResume == [valid |-> FALSE, gap |-> 0, preStart |-> 0]

\* the instant at which the clock entered Paused, 0 when it is not paused
PausedAt(before, after, old, t) ==
    IF after.isPaused THEN (IF before.isPaused THEN old ELSE t) ELSE 0

\* stopped: stop() has been called and no play() has started the clock since
RECURSIVE FoldStopped(_, _)
FoldStopped(st, calls) ==
    IF calls = <<>> THEN st
    ELSE LET c == Head(calls)
         IN  FoldStopped(IF c.op = "stop" THEN TRUE
                         ELSE IF c.pre = "Idle" /\ c.post = "Playing" THEN FALSE
                         ELSE st, Tail(calls))

SetWorld(w) ==
    /\ timeline' = w.tl
    /\ host' = w.host

\* an API call made from outside a frame (an event handler of the page)
External(op, w, k) ==
    /\ host.running = <<>>
    /\ SetWorld(w)
    /\ clockHist' = [clockHist EXCEPT
                       !.calls = <<CallRecord(op, World, w)>>,
                       !.stopped = FoldStopped(@, <<CallRecord(op, World, w)>>),
                       !.overrun = FALSE,
                       !.apiSince = @ \/ w # World,
                       !.pausedAt = PausedAt(timeline, w.tl, @, now),
                       !.resumed = IF op = "resume" /\ timeline.isPaused
                                   THEN [valid |-> TRUE, gap |-> now - clockHist.pausedAt,
                                         preStart |-> timeline.startTime]
                                   ELSE NoResume,
                       !.seek = IF op = "seekTo" THEN k + 1 ELSE 0]
    /\ UNCHANGED <<now, frameDone, tick, exceptClock>>

\* play(onFrame) as the AnimationPanel calls it, with an onFrame
Play == External("play", play(World, TRUE, now), 0)

Pause == External("pause", pause(World), 0)

ResumeBound == timeline.startTime + (now - timeline.currentTime) <= MaxStart

Resume ==
    /\ ResumeBound
    /\ External("resume", resume(World, now), 0)

Stop == External("stop", stop(World), 0)

SeekTo == \E k \in 0..(SeekDen - 1) : External("seekTo", seekTo(World, k, now), k)

AdvanceTime ==
    /\ host.running = <<>>
    /\ now < MaxTime
    /\ now' = now + 1
    /\ frameDone' = FALSE
    /\ clockHist' = [clockHist EXCEPT !.calls = <<>>, !.overrun = FALSE,
                                      !.resumed = NoResume, !.seek = 0]
    /\ UNCHANGED <<timeline, host, tick, exceptClock>>

\* the host starts an animation frame: the callbacks registered so far are
\* the ones this frame runs
BeginFrame ==
    /\ host.running = <<>>
    /\ host.queue # <<>>
    /\ ~frameDone
    /\ host' = [host EXCEPT !.running = host.queue, !.queue = <<>>]
    /\ frameDone' = TRUE
    /\ clockHist' = [clockHist EXCEPT !.calls = <<>>, !.overrun = FALSE,
                                      !.resumed = NoResume]
    /\ UNCHANGED <<timeline, now, tick, exceptClock>>

\* the host runs the next callback of the frame: animate(timestamp)
Tick ==
    /\ host.running # <<>>
    /\ LET e == Head(host.running)
           w0 == [tl |-> timeline, host |-> [host EXCEPT !.running = Tail(@)]]
       IN  \E op \in Reentrant, k \in 0..(SeekDen - 1) :
             /\ ~e.cb => op = "none"
             /\ op # "seekTo" => k = 0
             /\ LET r == animate(w0, e.cb, now, op, k)
                IN  /\ SetWorld(r.w)
                    /\ tick' = IF e.cb
                               THEN [valid |-> TRUE, time |-> r.observed.time,
                                     frame |-> r.observed.frame,
                                     elapsed |-> r.observed.elapsed,
                                     decreased |-> tick.valid /\ ~clockHist.apiSince
                                                   /\ r.observed.frame < tick.frame,
                                     afterRebase |-> tick.valid /\ ~clockHist.apiSince
                                                     /\ clockHist.rebased,
                                     afterSeek |-> clockHist.seek]
                               ELSE [tick EXCEPT !.afterSeek = 0]
                    /\ clockHist' = [calls |-> r.calls,
                                     stopped |-> FoldStopped(clockHist.stopped, r.calls),
                                     overrun |-> r.overrun,
                                     apiSince |-> IF e.cb THEN r.apiCall
                                                  ELSE clockHist.apiSince,
                                     rebased |-> IF e.cb THEN r.rebased
                                                 ELSE clockHist.rebased \/ r.rebased,
                                     pausedAt |-> PausedAt(timeline, r.w.tl,
                                                           clockHist.pausedAt, now),
                                     resumed |-> NoResume,
                                     seek |-> IF op = "seekTo" THEN k + 1
                                              ELSE IF r.w.tl.startTime = timeline.startTime
                                              THEN clockHist.seek ELSE 0]
    /\ UNCHANGED <<now, frameDone, exceptClock>>

ClockStart(tl) ==
    /\ timeline = tl
    /\ host = [queue |-> <<>>, running |-> <<>>]
    /\ now = 0
    /\ frameDone = FALSE
    /\ tick = NoTick
    /\ clockHist = [calls |-> <<>>, stopped |-> FALSE, overrun |-> FALSE,
                    apiSince |-> FALSE, rebased |-> FALSE, pausedAt |-> 0,
                    resumed |-> NoResume, seek |-> 0]

InitClock ==
    \E d \in Durations, f \in FpsValues, l \in BOOLEAN :
        ClockStart(AnimationTimeline(d, f, l))

\* the state the other specifications keep the clock in
ClockUnused == ClockStart(AnimationTimeline(1, 1, FALSE))

\* the state the other specifications keep the streams in
RNGUnused ==
    /\ globalRNG = SeededRandomGenerator(FALSE, EmptySeed, <<3>>)
    /\ localRNG = SeededRandomGenerator(FALSE, EmptySeed, <<3>>)
    /\ ctorArg = [w \in Instances |-> NoArg]
    /\ drawn = [w \in Instances |-> <<>>]
    /\ rngHist = [w \in Instances |-> [prior |-> FALSE, reset |-> FALSE]]
    /\ result = NoResult

NextClock ==
    \/ Play
    \/ Pause
    \/ Resume
    \/ Stop
    \/ SeekTo
    \/ AdvanceTime
    \/ BeginFrame
    \/ Tick

(***************************************************************************)
(* AnimationPanel (components/AnimationPanel.tsx).                         *)
(*                                                                         *)
(* The panel holds one AnimationTimeline in component state; its effect    *)
(* constructs a new one whenever isAnimated or animationSettings change.   *)
(* A handler and the effect its store update triggers are one step.  The   *)
(* timelines the panel no longer holds still exist: whatever they have     *)
(* registered with the host keeps running.                                 *)
(***************************************************************************)

MaxTimelines == 2    \* timelines the effect constructs
MaxPanelTime == 2    \* performance.now() stops advancing here

AnimationSettings == [duration : Durations, fps : FpsValues, loop : BOOLEAN]

\* const defaultSettings (the duration scaled to the model's time)
defaultSettings == [duration |-> 2, fps |-> 3, loop |-> TRUE]

NoEvent == [valid |-> FALSE, from |-> 0, current |-> FALSE, afterStop |-> FALSE,
            stopPressed |-> FALSE]

getIsPlaying(tl) == tl.isPlaying /\ ~tl.isPaused

\* the timeline that registered a callback: the one holding its id
Owner(id) ==
    IF \E i \in DOMAIN timelines : timelines[i].animationId = id
    THEN CHOOSE i \in DOMAIN timelines : timelines[i].animationId = id
    ELSE 0

PanelWorld(i) == [tl |-> timelines[i], host |-> phost]

\* the component after a handler: pn = the panel, tls = the timelines, h = the host
\* useEffect(..., [isAnimated, animationSettings]): runs when `changed`
timelineEffect(pn, tls, changed) ==
    IF ~changed THEN [panel |-> pn, timelines |-> tls]
    ELSE IF pn.isAnimated
    THEN [panel |-> [pn EXCEPT !.timeline = Len(tls) + 1],
          timelines |-> Append(tls, AnimationTimeline(pn.animationSettings.duration,
                                                      pn.animationSettings.fps,
                                                      pn.animationSettings.loop))]
    ELSE [panel |-> [pn EXCEPT !.timeline = 0], timelines |-> tls]

Handler(pn, tls, h, changed, stopPressed) ==
    /\ phost.running = <<>>
    /\ LET r == timelineEffect(pn, tls, changed)
       IN  /\ Len(r.timelines) <= MaxTimelines
           /\ panel' = r.panel
           /\ timelines' = r.timelines
    /\ phost' = h
    /\ emitted' = [emitted EXCEPT !.stopPressed = stopPressed]
    /\ UNCHANGED <<ptime, exceptPanel>>

\* toggleAnimation
ToggleAnimation ==
    IF panel.isAnimated
    THEN LET off == [panel EXCEPT !.isAnimated = FALSE,
                                  !.animationSettings = defaultSettings]
         IN  IF panel.timeline # 0
             THEN LET w == stop(PanelWorld(panel.timeline))
                  IN  Handler([off EXCEPT !.isPlaying = FALSE],
                              [timelines EXCEPT ![panel.timeline] = w.tl], w.host,
                              TRUE, emitted.stopPressed)
             ELSE Handler(off, timelines, phost, TRUE, emitted.stopPressed)
    ELSE Handler([panel EXCEPT !.isAnimated = TRUE], timelines, phost, TRUE,
                 emitted.stopPressed)

\* updateAnimationSettings(updates), from the inputs shown while isAnimated
UpdateAnimationSettings ==
    /\ panel.isAnimated
    /\ \E newSettings \in AnimationSettings :
         Handler([panel EXCEPT !.animationSettings = newSettings], timelines, phost,
                 TRUE, emitted.stopPressed)

\* playAnimation
PlayAnimation ==
    /\ panel.isAnimated
    /\ ~(panel.timeline = 0 \/ panel.isPlaying)
    /\ LET w == play(PanelWorld(panel.timeline), TRUE, ptime.now)
       IN  Handler([panel EXCEPT !.isPlaying = TRUE],
                   [timelines EXCEPT ![panel.timeline] = w.tl], w.host, FALSE, FALSE)

\* pauseAnimation
PauseAnimation ==
    /\ panel.isAnimated
    /\ ~(panel.timeline = 0 \/ ~panel.isPlaying)
    /\ LET w == pause(PanelWorld(panel.timeline))
       IN  Handler([panel EXCEPT !.isPlaying = FALSE],
                   [timelines EXCEPT ![panel.timeline] = w.tl], w.host, FALSE,
                   emitted.stopPressed)

\* stopAnimation
StopAnimation ==
    /\ panel.isAnimated
    /\ panel.timeline # 0
    /\ LET w == stop(PanelWorld(panel.timeline))
       IN  Handler([panel EXCEPT !.isPlaying = FALSE],
                   [timelines EXCEPT ![panel.timeline] = w.tl], w.host, FALSE, TRUE)

PanelAdvanceTime ==
    /\ phost.running = <<>>
    /\ ptime.now < MaxPanelTime
    /\ ptime' = [now |-> ptime.now + 1, frameDone |-> FALSE]
    /\ UNCHANGED <<panel, timelines, phost, emitted, exceptPanel>>

PanelBeginFrame ==
    /\ phost.running = <<>>
    /\ phost.queue # <<>>
    /\ ~ptime.frameDone
    /\ phost' = [phost EXCEPT !.running = phost.queue, !.queue = <<>>]
    /\ ptime' = [ptime EXCEPT !.frameDone = TRUE]
    /\ UNCHANGED <<panel, timelines, emitted, exceptPanel>>

\* the host runs the next callback of the frame: the animate closure of the
\* timeline that registered it, whose onFrame is the panel's (73-81): it
\* reads the timeline and dispatches the 'animationFrame' event
PanelTick ==
    /\ phost.running # <<>>
    /\ LET e == Head(phost.running)
           i == Owner(e.id)
           w0 == [tl |-> timelines[i], host |-> [phost EXCEPT !.running = Tail(@)]]
           r == animate(w0, e.cb, ptime.now, "none", 0)
       IN  /\ i # 0
           /\ timelines' = [timelines EXCEPT ![i] = r.w.tl]
           /\ phost' = r.w.host
           /\ emitted' = [emitted EXCEPT !.valid = TRUE, !.from = i,
                                         !.current = (i = panel.timeline),
                                         !.afterStop = emitted.stopPressed]
    /\ UNCHANGED <<panel, ptime, exceptPanel>>

PanelStartState(pn, tls) ==
    /\ panel = pn
    /\ timelines = tls
    /\ phost = [queue |-> <<>>, running |-> <<>>]
    /\ ptime = [now |-> 0, frameDone |-> FALSE]
    /\ emitted = NoEvent

\* a project that is not animated yet: no timeline
InitPanel ==
    PanelStartState([timeline |-> 0, isPlaying |-> FALSE, isAnimated |-> FALSE,
                     animationSettings |-> defaultSettings], <<>>)

PanelUnused == InitPanel

NextPanel ==
    \/ ToggleAnimation
    \/ UpdateAnimationSettings
    \/ PlayAnimation
    \/ PauseAnimation
    \/ StopAnimation
    \/ PanelAdvanceTime
    \/ PanelBeginFrame
    \/ PanelTick

(***************************************************************************)
(* The rendering backends: P5Renderer (Canvas2D) and ThreeRenderer         *)
(* (Scene3D), driven by the compiled sketch of Playground.                 *)
(*                                                                         *)
(* The p5 library calls the sketch function given to `new p5` at           *)
(* construction, then p.setup() once, then whatever p.draw is bound to at  *)
(* each frame, until remove().  The three.js loop is the renderer's own    *)
(* requestAnimationFrame chain.                                            *)
(***************************************************************************)

MaxRenderTime == 4       \* the host's frame timestamps stop advancing here
FrameIntervalSteps == 2  \* frameInterval = 1000 / targetFPS, in steps
HookDraws == {0, 1}      \* random() calls a sketch hook makes

\* the module-level stream as one record: instance, draws since (re)seeding,
\* constructor argument, reset history
Global ==
    [g |-> globalRNG, d |-> drawn["global"], a |-> ctorArg["global"], h |-> rngHist["global"]]

\* setGlobalSeed(seed)
setGlobalSeed(G, seed, gen) ==
    [g |-> SeededRandomGenerator(TRUE, seed, gen), d |-> <<>>,
     a |-> [given |-> TRUE, seed |-> seed], h |-> [prior |-> FALSE, reset |-> FALSE]]

\* resetGlobalRNG()
resetGlobalRNG(G) ==
    [G EXCEPT !.g = reset(G.g), !.d = <<>>,
              !.h = [prior |-> G.h.prior \/ G.d # <<>>, reset |-> TRUE]]

\* sketch code calling random() n times
RECURSIVE SketchDraws(_, _)
SketchDraws(G, n) ==
    IF n = 0 THEN G
    ELSE LET r == random(G.g)
         IN  SketchDraws([G EXCEPT !.g = r.g, !.d = @ \o r.outs], n - 1)

SetGlobal(G) ==
    /\ globalRNG' = G.g
    /\ drawn' = [drawn EXCEPT !["global"] = G.d]
    /\ ctorArg' = [ctorArg EXCEPT !["global"] = G.a]
    /\ rngHist' = [rngHist EXCEPT !["global"] = G.h]
    /\ UNCHANGED <<localRNG, result>>

NoP5 == [live |-> FALSE, setup |-> "none", draw |-> "none", originalDraw |-> "none",
         didSetup |-> FALSE, userSetups |-> 0]

NoThree == [rendererRef |-> FALSE, cleanupFnRef |-> FALSE, animationIdRef |-> Null,
            lastFrameTimeRef |-> 0, teardownCalls |-> 0]

\* cleanupFnRef.current(), when the ref holds a function: counted up to 2
callCleanup(t) ==
    IF t.cleanupFnRef THEN [t EXCEPT !.teardownCalls = Min(@ + 1, 2)] ELSE t

\* P5Renderer.createSketch(p), run by `new p5(createSketch, container)`
createSketch(G, seed, gen) ==
    [G |-> resetGlobalRNG(setGlobalSeed(G, seed, gen)),
     p |-> [live |-> TRUE, setup |-> "renderer.setup", draw |-> "renderer.draw",
            originalDraw |-> "none", didSetup |-> FALSE, userSetups |-> 0],
     trace |-> <<"setGlobalSeed", "reset">>]

\* the compiled Canvas2D artifact, function(p): binds p.setup / p.draw to the
\* user's setup / draw when the code defines them
compiledSketchP5(p, proj) ==
    [p EXCEPT !.setup = IF proj.hasSetup THEN "user.setup" ELSE @,
              !.draw = IF proj.hasDraw THEN "user.draw" ELSE @]

\* what an exception thrown by sketch code leaves in the trace: caught by a
\* try/catch of the backend and handed to onError, or out of the handler into
\* the caller (the p5 loop, the host's frame dispatch)
Caught == <<"throw", "onError">>
Uncaught == <<"throw", "uncaught">>

\* the p.setup installed by createSketch: createCanvas, then
\* sketchRef.current(p), which only binds (typeof checks and assignments)
rendererSetup(p, proj) ==
    [p |-> compiledSketchP5(p, proj), trace |-> <<"sketch">>]

\* p5 calls p.setup() once: whatever p.setup is bound to when p5 reads it
p5Setup(p, proj) ==
    LET r == CASE p.setup = "renderer.setup" -> rendererSetup(p, proj)
               [] p.setup = "user.setup" ->
                      [p |-> [p EXCEPT !.userSetups = @ + 1], trace |-> <<"user.setup">>]
               [] OTHER -> [p |-> p, trace |-> <<>>]
    IN  [p |-> [r.p EXCEPT !.didSetup = TRUE], trace |-> r.trace]

\* one frame of the p5 loop: p.draw(), with n the draws of a user hook
\* and throws telling whether the hook ends by throwing; neither the wrapper
\* nor the bound user draw has a try/catch
p5Draw(G, p, n, throws) ==
    LET thrown == IF throws THEN Uncaught ELSE <<>>
    IN  CASE p.draw = "renderer.draw" ->
                 IF p.originalDraw = "user.draw"
                 THEN [G |-> SketchDraws(resetGlobalRNG(G), n),
                       trace |-> <<"reset", "hook">> \o thrown]
                 ELSE [G |-> resetGlobalRNG(G), trace |-> <<"reset">>]
          [] p.draw = "user.draw" ->
                 [G |-> SketchDraws(G, n), trace |-> <<"hook">> \o thrown]
          [] OTHER -> [G |-> G, trace |-> <<>>]

\* the cleanup function of P5Renderer's effect: remove() ends the instance's
\* loop, and the ref is cleared
p5Cleanup(p) ==
    [p |-> NoP5, trace |-> IF p.live THEN <<"remove">> ELSE <<>>]

\* ThreeRenderer: requestAnimationFrame(animate) / cancelAnimationFrame
rRequest(h, held) ==
    LET ids == {h.queue[i] : i \in DOMAIN h.queue} \cup {held}
        id == CHOOSE i \in 1..(Len(h.queue) + 2) :
                  i \notin ids /\ \A j \in 1..(i - 1) : j \in ids
    IN  [host |-> [h EXCEPT !.queue = Append(@, id)], id |-> id]

\* a cancelAnimationFrame that cancels nothing
rCancelNothing(h, id) == h

rCancel(h, id) == [h EXCEPT !.queue = SelectSeq(@, LAMBDA e : e # id)]

\* createThreeScene(): n = draws of the user's setup, cleanup = it returns a
\* teardown function, throws = it throws instead of returning.  The whole
\* body is inside try/catch: a throw skips the rest and calls onError.
createThreeScene(G, t, h, seed, gen, n, cleanup, throws) ==
    LET G1 == resetGlobalRNG(setGlobalSeed(G, seed, gen))
        old == (IF t.rendererRef THEN <<"dispose">> ELSE <<>>)
               \o (IF t.cleanupFnRef THEN <<"cleanup">> ELSE <<>>)
        h1 == IF t.animationIdRef # Null THEN rCancel(h, t.animationIdRef) ELSE h
        \* animate(performance.now()): deltaTime = 0 < frameInterval, no render
        r == rRequest(h1, t.animationIdRef)
        t1 == callCleanup(t)
    IN  IF throws
        THEN [G |-> SketchDraws(G1, n),
              t |-> [t1 EXCEPT !.rendererRef = TRUE],
              h |-> h1,
              trace |-> <<"setGlobalSeed", "reset">> \o old \o <<"sketch">> \o Caught]
        ELSE [G |-> SketchDraws(G1, n),
              t |-> [rendererRef |-> TRUE,
                     cleanupFnRef |-> IF cleanup THEN TRUE ELSE t.cleanupFnRef,
                     animationIdRef |-> r.id,
                     lastFrameTimeRef |-> h.time,
                     teardownCalls |-> IF cleanup THEN 0 ELSE t1.teardownCalls],
              h |-> r.host,
              trace |-> <<"setGlobalSeed", "reset">> \o old \o <<"sketch">>]

\* the animate closure of createThreeScene, run by the host at currentTime
\* throws = renderer.render ends by throwing: animate has no try/catch, so
\* the rest of it (lastFrameTimeRef, requestAnimationFrame) does not run
threeAnimate(G, t, h, currentTime, n, throws) ==
    LET due == currentTime - t.lastFrameTimeRef >= FrameIntervalSteps
        r == rRequest(h, t.animationIdRef)
    IN  IF due /\ throws
        THEN [G |-> SketchDraws(resetGlobalRNG(G), n), t |-> t, h |-> h,
              trace |-> <<"reset", "hook">> \o Uncaught]
        ELSE [G |-> IF due THEN SketchDraws(resetGlobalRNG(G), n) ELSE G,
              t |-> [t EXCEPT !.lastFrameTimeRef = IF due THEN currentTime ELSE @,
                              !.animationIdRef = r.id],
              h |-> r.host,
              trace |-> IF due THEN <<"reset", "hook">> ELSE <<>>]

\* the cleanup function of ThreeRenderer's effect
threeCleanup(t, h) ==
    [t |-> callCleanup(t),
     h |-> IF t.animationIdRef # Null THEN rCancel(h, t.animationIdRef) ELSE h,
     trace |-> (IF t.cleanupFnRef THEN <<"cleanup">> ELSE <<>>)
               \o (IF t.rendererRef THEN <<"dispose">> ELSE <<>>)]

DrawsAllowed(G) == {n \in HookDraws : Len(G.d) + n <= MaxDraws}

\* the renderer component mounts: its effect creates the backend
Mount ==
    /\ ~mounted
    /\ mounted' = TRUE
    /\ \E gen \in generateSeedOutcomes :
         IF project.type = "p5"
         THEN LET c == createSketch(Global, project.seed, gen)
              IN  /\ SetGlobal(c.G)
                  /\ p5Instance' = c.p
                  /\ frameTrace' = c.trace
                  /\ UNCHANGED <<three, rhost, project>>
         ELSE \E n \in HookDraws, cleanup \in BOOLEAN, throws \in BOOLEAN :
                \* a newly mounted component has fresh refs
                LET c == createThreeScene(Global, NoThree, rhost, project.seed, gen,
                                          IF project.hasSetup THEN n ELSE 0,
                                          project.hasSetup /\ cleanup,
                                          project.hasSetup /\ throws)
                IN  /\ SetGlobal(c.G)
                    /\ three' = c.t
                    /\ rhost' = c.h
                    /\ frameTrace' = c.trace
                    /\ UNCHANGED <<p5Instance, project>>
    /\ UNCHANGED exceptRender

\* the component unmounts: the effect's cleanup runs
Unmount ==
    /\ mounted
    /\ mounted' = FALSE
    /\ IF project.type = "p5"
       THEN LET c == p5Cleanup(p5Instance)
            IN  /\ p5Instance' = c.p
                /\ frameTrace' = c.trace
                /\ UNCHANGED <<three, rhost>>
       ELSE LET c == threeCleanup(three, rhost)
            IN  /\ three' = c.t
                /\ rhost' = c.h
                /\ frameTrace' = c.trace
                /\ UNCHANGED p5Instance
    /\ UNCHANGED <<project, rngVars, exceptRender>>

\* the seed of the project changes (updateSeed): the effect's cleanup runs
\* and the effect runs again with the new seed
ChangeSeed ==
    /\ mounted
    /\ \E seed \in UserSeeds \ {project.seed}, gen \in generateSeedOutcomes :
         /\ project' = [project EXCEPT !.seed = seed]
         /\ IF project.type = "p5"
            THEN LET u == p5Cleanup(p5Instance)
                     c == createSketch(Global, seed, gen)
                 IN  /\ SetGlobal(c.G)
                     /\ p5Instance' = c.p
                     /\ frameTrace' = u.trace \o c.trace
                     /\ UNCHANGED <<three, rhost>>
            ELSE \E n \in HookDraws, cleanup \in BOOLEAN, throws \in BOOLEAN :
                   LET u == threeCleanup(three, rhost)
                       c == createThreeScene(Global, u.t, u.h, seed, gen,
                                             IF project.hasSetup THEN n ELSE 0,
                                             project.hasSetup /\ cleanup,
                                             project.hasSetup /\ throws)
                   IN  /\ SetGlobal(c.G)
                       /\ three' = c.t
                       /\ rhost' = c.h
                       /\ frameTrace' = u.trace \o c.trace
                       /\ UNCHANGED p5Instance
    /\ UNCHANGED <<mounted, exceptRender>>

\* p5 calls p.setup() once after construction
P5Setup ==
    /\ p5Instance.live /\ ~p5Instance.didSetup
    /\ LET r == p5Setup(p5Instance, project)
       IN  /\ p5Instance' = r.p
           /\ frameTrace' = r.trace
    /\ UNCHANGED <<project, mounted, three, rhost, rngVars, exceptRender>>

\* p5 runs one frame
P5Frame ==
    /\ p5Instance.live /\ p5Instance.didSetup
    /\ \E n \in DrawsAllowed(Global), throws \in BOOLEAN :
         LET f == p5Draw(Global, p5Instance, n, throws)
         IN  /\ SetGlobal(f.G)
             /\ frameTrace' = f.trace
    /\ UNCHANGED <<project, mounted, p5Instance, three, rhost, exceptRender>>

\* the host runs the next animate callback of the three.js loop, dt after
\* the previous frame
ThreeFrame ==
    /\ rhost.queue # <<>>
    /\ \E dt \in 1..FrameIntervalSteps, throws \in BOOLEAN,
          n \in {0} \cup DrawsAllowed([Global EXCEPT !.d = <<>>]) :
         /\ rhost.time + dt <= MaxRenderTime
         /\ LET h0 == [queue |-> Tail(rhost.queue), time |-> rhost.time + dt]
                f == threeAnimate(Global, three, h0, h0.time, n, throws)
            IN  /\ SetGlobal(f.G)
                /\ three' = f.t
                /\ rhost' = f.h
                /\ frameTrace' = f.trace
    /\ UNCHANGED <<project, mounted, p5Instance, exceptRender>>

InitRender ==
    /\ \E ty \in {"p5", "three"}, seed \in UserSeeds, hs \in BOOLEAN, hd \in BOOLEAN :
         project = [type |-> ty, seed |-> seed, hasSetup |-> hs, hasDraw |-> hd]
    /\ mounted = FALSE
    /\ p5Instance = NoP5
    /\ three = NoThree
    /\ rhost = [queue |-> <<>>, time |-> 0]
    /\ frameTrace = <<>>

\* the state the other specifications keep the backends in
RenderUnused ==
    /\ project = [type |-> "p5", seed |-> <<1>>, hasSetup |-> FALSE, hasDraw |-> FALSE]
    /\ mounted = FALSE
    /\ p5Instance = NoP5
    /\ three = NoThree
    /\ rhost = [queue |-> <<>>, time |-> 0]
    /\ frameTrace = <<>>

NextRender ==
    \/ Mount
    \/ Unmount
    \/ ChangeSeed
    \/ P5Setup
    \/ P5Frame
    \/ ThreeFrame


(***************************************************************************)
(* Parameters: the @param declarations of the code (parameterParser), the  *)
(* held parameters of the store (useProjectStore) and the ParameterPanel   *)
(* effect that reconciles the two.                                         *)
(*                                                                         *)
(* A declaration is [name, type, min]; min stands for the constraint and   *)
(* description fields the effect compares (min, max, step, options,        *)
(* description).  Values are written as the strings the code holds.        *)
(***************************************************************************)
ParamNames == {"a", "b"}
ParamTypes == {"number", "boolean"}
MinValues == {0, 1}
MaxDecls == 2        \* @param declarations in a source text

\* the declarations a source text is made of: a in every kind and constraint,
\* b as a number
Decls ==
    [name : {"a"}, type : ParamTypes, min : MinValues]
        \cup [name : {"b"}, type : {"number"}, min : {0}]

\* the source texts: up to MaxDecls declarations, names not necessarily distinct
Codes == UNION {[1..n -> Decls] : n \in 0..MaxDecls}

getDefaultValue(type) ==
    CASE type = "number" -> "0"
      [] type = "boolean" -> "false"
      [] type = "color" -> "#000000"
      [] type = "select" -> ""
      [] type = "vector2" -> "0, 0"
      [] type = "vector3" -> "0, 0, 0"
      [] type = "range" -> "0, 100"
      [] OTHER -> "0"

\* the value a ParameterControl of this type hands to updateParameter
UserValue(type) == IF type = "number" THEN "5" ELSE "true"

parseParametersFromCode(c) ==
    [i \in DOMAIN c |->
        [name |-> c[i].name, type |-> c[i].type,
         defaultValue |-> getDefaultValue(c[i].type), min |-> c[i].min]]

convertToProjectParameters(parsed) ==
    [i \in DOMAIN parsed |->
        [name |-> parsed[i].name, type |-> parsed[i].type,
         value |-> parsed[i].defaultValue, min |-> parsed[i].min]]

\* store: updateParameter / addParameter / removeParameter
updateParameter(ps, name, value) ==
    [i \in DOMAIN ps |-> IF ps[i].name = name THEN [ps[i] EXCEPT !.value = value] ELSE ps[i]]

addParameter(ps, parameter) == Append(ps, parameter)

removeParameter(ps, name) == SelectSeq(ps, LAMBDA q : q.name # name)

\* array.find(p => p.name === name): index of the first match, 0 if none
find(ps, name) ==
    IF \E i \in DOMAIN ps : ps[i].name = name
    THEN CHOOSE i \in DOMAIN ps : ps[i].name = name /\ \A j \in 1..(i - 1) : ps[j].name # name
    ELSE 0

NameCount(ps, n) == Cardinality({i \in DOMAIN ps : ps[i].name = n})

\* the sorted name arrays differ in length or in some position
parametersChanged(existing, newParams) ==
    \E n \in ParamNames : NameCount(existing, n) # NameCount(newParams, n)

\* a changed definition replacing the held one, its value dropped
updatedParamFresh(existing, param) == param

\* const updatedParam = { ...param }; if (existing.type === param.type)
\* updatedParam.value = existing.value
updatedParam(existing, param) ==
    IF existing.type = param.type THEN [param EXCEPT !.value = existing.value] ELSE param

\* currentProject.parameters.forEach: remove what the code no longer declares.
\* st = [ps |-> the store's parameters, calls |-> store calls so far]
RECURSIVE removePhase(_, _, _, _)
removePhase(snapshot, newParams, i, st) ==
    IF i > Len(snapshot) THEN st
    ELSE removePhase(snapshot, newParams, i + 1,
            IF find(newParams, snapshot[i].name) = 0
            THEN [ps |-> removeParameter(st.ps, snapshot[i].name),
                  calls |-> Append(st.calls, <<"remove", snapshot[i].name>>)]
            ELSE st)

\* newParams.forEach: add what is new, replace what changed
RECURSIVE addPhase(_, _, _, _)
addPhase(snapshot, newParams, j, st) ==
    IF j > Len(newParams) THEN st
    ELSE LET param == newParams[j]
             e == find(snapshot, param.name)
         IN  addPhase(snapshot, newParams, j + 1,
                IF e = 0
                THEN [ps |-> addParameter(st.ps, param),
                      calls |-> Append(st.calls, <<"add", param.name>>)]
                ELSE IF snapshot[e].type # param.type \/ snapshot[e].min # param.min
                THEN [ps |-> addParameter(removeParameter(st.ps, param.name),
                                          updatedParam(snapshot[e], param)),
                      calls |-> st.calls \o <<<<"remove", param.name>>, <<"add", param.name>>>>]
                ELSE st)

\* the body of the ParameterPanel effect: the held parameters against the
\* declarations of the code
reconcile(existing, c) ==
    LET newParams == convertToProjectParameters(parseParametersFromCode(c))
        st0 == [ps |-> existing, calls |-> <<>>]
    IN  IF parametersChanged(existing, newParams)
        THEN addPhase(existing, newParams, 1, removePhase(existing, newParams, 1, st0))
        ELSE st0

NoPass == [valid |-> FALSE, code |-> <<>>, before |-> <<>>, after |-> <<>>, calls |-> <<>>]

\* the user edits the code (updateCode); pending effects are flushed before
\* the next event is handled
UpdateCode ==
    /\ ~effectDue
    /\ \E c \in Codes \ {code} : code' = c
    /\ effectDue' = TRUE
    /\ lastPass' = NoPass
    /\ UNCHANGED <<parameters, exceptParams>>

\* the user moves a control (updateParameter)
UpdateParameter ==
    /\ ~effectDue
    /\ \E i \in DOMAIN parameters :
         parameters' = updateParameter(parameters, parameters[i].name,
                                       UserValue(parameters[i].type))
    /\ effectDue' = TRUE
    /\ lastPass' = NoPass
    /\ UNCHANGED <<code, exceptParams>>

\* the ParameterPanel effect runs; it runs again when it changed the store
RunEffect ==
    /\ effectDue
    /\ LET r == reconcile(parameters, code)
       IN  /\ parameters' = r.ps
           /\ lastPass' = [valid |-> TRUE, code |-> code, before |-> parameters,
                           after |-> r.ps, calls |-> r.calls]
           /\ effectDue' = (r.calls # <<>>)
    /\ UNCHANGED <<code, exceptParams>>

\* createProject: no parameters; the panel mounts and its effect is due
InitParams ==
    /\ parameters = <<>>
    /\ code \in Codes
    /\ effectDue = TRUE
    /\ lastPass = NoPass

\* the state the other specifications keep the parameters in
ParamsUnused ==
    /\ parameters = <<>>
    /\ code = <<>>
    /\ effectDue = FALSE
    /\ lastPass = NoPass

NextParams ==
    \/ UpdateCode
    \/ UpdateParameter
    \/ RunEffect

(***************************************************************************)
(* parameterParser on texts: parseParameterOptions and                     *)
(* injectParametersIntoCode.                                               *)
(*                                                                         *)
(* A text is a sequence of symbols.  The separators the code looks for     *)
(* (",", "=", ";", blank, line break) are symbols of their own; a word     *)
(* that no operation looks into (red, 0.1, default) is one symbol.         *)
(***************************************************************************)
Blank == " "
LineBreak == "\n"
WhiteSpace == {Blank, LineBreak}

\* a one-word string as a text; the empty string is the empty text
Chars(w) == IF w = "" THEN <<>> ELSE <<w>>

\* String.prototype.split(sep) for a one-symbol separator
RECURSIVE split(_, _)
split(s, sep) ==
    IF \A i \in DOMAIN s : s[i] # sep THEN <<s>>
    ELSE LET i == CHOOSE k \in DOMAIN s : s[k] = sep /\ \A j \in 1..(k - 1) : s[j] # sep
         IN  <<SubSeq(s, 1, i - 1)>> \o split(SubSeq(s, i + 1, Len(s)), sep)

\* String.prototype.trim()
RECURSIVE trim(_)
trim(s) ==
    IF s = <<>> THEN s
    ELSE IF Head(s) \in WhiteSpace THEN trim(Tail(s))
    ELSE IF s[Len(s)] \in WhiteSpace THEN trim(SubSeq(s, 1, Len(s) - 1))
    ELSE s

Numerals == {"0", "5", "0.1"}

\* parseFloat(value): the number the text starts with, NaN when it starts with none
parseFloat(value) ==
    IF value # <<>> /\ value[1] \in Numerals THEN [number |-> value[1]]
    ELSE [number |-> "NaN"]

Absent == [absent |-> TRUE]

\* the param object parseParametersFromCode builds before it reads the bracket
newParam(type) ==
    [type |-> type, defaultValue |-> Chars(getDefaultValue(type)),
     min |-> Absent, max |-> Absent, step |-> Absent, options |-> Absent]

\* one round of the for loop of parseParameterOptions.  Every known key of
\* the texts below has a value.
parsePair(param, pair) ==
    LET parts == [i \in DOMAIN split(pair, "=") |-> trim(split(pair, "=")[i])]
        key == parts[1]
        value == IF Len(parts) >= 2 THEN parts[2] ELSE <<"undefined">>
    IN  CASE key = <<"min">> -> [param EXCEPT !.min = parseFloat(value)]
          [] key = <<"max">> -> [param EXCEPT !.max = parseFloat(value)]
          [] key = <<"step">> -> [param EXCEPT !.step = parseFloat(value)]
          [] key = <<"default">> ->
                 IF param.type = "number"
                 THEN [param EXCEPT !.defaultValue = parseFloat(value)]
                 ELSE [param EXCEPT !.defaultValue = value]
          [] key = <<"options">> ->
                 LET opts == [i \in DOMAIN split(value, ",") |-> trim(split(value, ",")[i])]
                 IN  [param EXCEPT !.options = opts,
                                   !.defaultValue = IF param.type = "select" /\ Len(opts) > 0
                                                    THEN opts[1] ELSE @]
          [] OTHER -> param

RECURSIVE parsePairs(_, _)
parsePairs(param, optionPairs) ==
    IF optionPairs = <<>> THEN param
    ELSE parsePairs(parsePair(param, Head(optionPairs)), Tail(optionPairs))

parseParameterOptions(param, optionsString) ==
    LET pieces == split(optionsString, ",")
    IN  parsePairs(param, [i \in DOMAIN pieces |-> trim(pieces[i])])

(***************************************************************************)
(* The brackets of the documented formats: a list of entries key=value,    *)
(* written one after the other with ", " between them; the value of        *)
(* options and of a vector default is itself a comma-separated list.       *)
(***************************************************************************)
MaxEntries == 2

RECURSIVE joinWith(_, _)
joinWith(list, sep) ==
    IF list = <<>> THEN <<>>
    ELSE IF Len(list) = 1 THEN list[1]
    ELSE list[1] \o sep \o joinWith(Tail(list), sep)

Words(list) == [i \in DOMAIN list |-> <<list[i]>>]

Entries ==
    {[key |-> "default", list |-> <<"blue">>],
     [key |-> "default", list |-> <<"0", "5", "0">>],
     [key |-> "options", list |-> <<"red">>],
     [key |-> "options", list |-> <<"red", "blue", "green">>],
     [key |-> "step", list |-> <<"0.1">>],
     [key |-> "min", list |-> <<"0">>]}

entryText(e) == <<e.key, "=">> \o joinWith(Words(e.list), <<",">>)

bracketText(entries) ==
    joinWith([i \in DOMAIN entries |-> entryText(entries[i])], <<",", Blank>>)

AnnotationTypes == {"select", "vector3", "number"}

\* lists of distinct keys
EntryLists ==
    {l \in UNION {[1..n -> Entries] : n \in 1..MaxEntries} :
        \A i, j \in DOMAIN l : i # j => l[i].key # l[j].key}

Annotations ==
    {[type |-> t, entries |-> l, optionsString |-> bracketText(l)] :
        t \in AnnotationTypes, l \in EntryLists}

NoAnnotation == [type |-> "none", entries |-> <<>>, optionsString |-> <<>>]
NoParam == [type |-> "none"]
NoProgram == [items |-> <<>>, code |-> <<>>, parameters |-> <<>>]
NoOutput == [code |-> <<"none">>, parameters |-> <<>>]

\* parseParametersFromCode reads the bracket of one annotation
ParseOptions ==
    /\ annotation # NoAnnotation
    /\ parsedParam = NoParam
    /\ parsedParam' = parseParameterOptions(newParam(annotation.type), annotation.optionsString)
    /\ UNCHANGED <<annotation, program, injected, exceptText>>

(***************************************************************************)
(* injectParametersIntoCode.  Identifiers are written letter by letter, so *)
(* that one name can be the beginning of another.                          *)
(***************************************************************************)
Keywords == {"const", "let", "var"}
Terminators == {";", LineBreak}

\* the last index e >= k - 1 such that t[k..e] are all symbols of S
RECURSIVE RunEnd(_, _, _)
RunEnd(t, k, S) ==
    IF k <= Len(t) /\ t[k] \in S THEN RunEnd(t, k + 1, S) ELSE k - 1

\* the symbols a text is made of that are not terminators
Plain(t) == {t[i] : i \in DOMAIN t} \ Terminators

\* varRegex = ((?:const|let|var)\s+NAME\s*=\s*)[^;\n]+ tried at position i:
\* g = the end of group 1, e = the end of the match.  The last \s* is greedy
\* and gives symbols back when nothing else is left for [^;\n]+.
varRegex(t, i, name) ==
    LET e1 == RunEnd(t, i + 1, WhiteSpace)
        n == e1 + Len(name)
        e2 == RunEnd(t, n + 1, WhiteSpace)
        e3 == RunEnd(t, e2 + 2, WhiteSpace)
        head == /\ i <= Len(t) /\ t[i] \in Keywords
                /\ e1 >= i + 1
                /\ n <= Len(t) /\ SubSeq(t, e1 + 1, n) = name
                /\ e2 + 1 <= Len(t) /\ t[e2 + 1] = "="
        gs == {g \in (e2 + 1)..e3 : g + 1 <= Len(t) /\ t[g + 1] \notin Terminators}
    IN  IF head /\ gs # {}
        THEN LET g == CHOOSE x \in gs : \A y \in gs : y <= x
             IN  [ok |-> TRUE, g |-> g, e |-> RunEnd(t, g + 1, Plain(t))]
        ELSE [ok |-> FALSE, g |-> 0, e |-> 0]

\* updatedCode.replace(varRegex, `$1${value}`) with the g flag, from position i
RECURSIVE replace(_, _, _, _)
replace(t, i, name, value) ==
    IF i > Len(t) THEN <<>>
    ELSE LET m == varRegex(t, i, name)
         IN  IF m.ok THEN SubSeq(t, i, m.g) \o value \o replace(t, m.e + 1, name, value)
             ELSE <<t[i]>> \o replace(t, i + 1, name, value)

\* String(param.value)
String(v) == v.text

\* the text injected for a parameter: the switch on param.type
valueText(param) ==
    CASE param.type \in {"color", "select"} -> <<"\"">> \o String(param.value) \o <<"\"">>
      [] param.type \in {"vector2", "vector3", "range"} ->
             LET parts == split(String(param.value), ",")
                 components == [i \in DOMAIN parts |-> trim(parts[i])]
             IN  <<"[">> \o joinWith(components, <<",", Blank>>) \o <<"]">>
      [] OTHER -> String(param.value)

\* injectParametersIntoCode(code, parameters): result code, and the
\* parameters as the call leaves them
RECURSIVE injectLoop(_, _)
injectLoop(updatedCode, params) ==
    IF params = <<>> THEN updatedCode
    ELSE LET param == Head(params)
         IN  injectLoop(replace(updatedCode, 1, param.name, valueText(param)),
                        Tail(params))

injectParametersIntoCode(c, params) ==
    [code |-> injectLoop(c, params), parameters |-> params]

(***************************************************************************)
(* Source texts: statements, one per line.  A declaration is               *)
(*   kw name = init tail                                                   *)
(* where tail is what follows the initializer on the line; kw = "none"     *)
(* makes it an assignment; nested puts it in a block.                      *)
(***************************************************************************)
MaxItems == 2

Statement(kw, name, tail, nested) ==
    [kw |-> kw, name |-> name, init |-> <<"5">>, tail |-> tail, nested |-> nested]

Statements ==
    {Statement("const", <<"a">>, <<";">>, FALSE),
     Statement("let", <<"a", "b">>, <<";">>, FALSE),
     Statement("var", <<"a">>, <<";">>, TRUE),
     Statement("let", <<"a">>, <<",", Blank, "c", Blank, "=", Blank, "5", ";">>, FALSE),
     Statement("const", <<"a">>, <<>>, FALSE),
     Statement("const", <<"a">>, <<Blank, "//c">>, FALSE),
     Statement("none", <<"a">>, <<";">>, FALSE),
     Statement("const", <<"b">>, <<";">>, FALSE)}

\* the line of a statement whose initializer is init
lineText(st, init) ==
    (IF st.nested THEN <<"{", Blank>> ELSE <<>>)
        \o (IF st.kw = "none" THEN <<>> ELSE <<st.kw, Blank>>)
        \o st.name \o <<Blank, "=", Blank>> \o init \o st.tail
        \o (IF st.nested THEN <<Blank, "}">> ELSE <<>>)
        \o <<LineBreak>>

RECURSIVE sourceText(_)
sourceText(items) ==
    IF items = <<>> THEN <<>>
    ELSE lineText(Head(items), Head(items).init) \o sourceText(Tail(items))

InjectedParameters ==
    {[name |-> <<"a">>, type |-> "number", value |-> [kind |-> "number", text |-> <<"7">>]],
     [name |-> <<"a">>, type |-> "select", value |-> [kind |-> "string", text |-> <<"red">>]],
     [name |-> <<"a">>, type |-> "vector2",
      value |-> [kind |-> "string", text |-> <<"1", ",", "2">>]]}

OtherParameter ==
    [name |-> <<"b">>, type |-> "boolean", value |-> [kind |-> "boolean", text |-> <<"true">>]]

ParameterLists ==
    {<<pa>> : pa \in InjectedParameters} \cup {<<pa, OtherParameter>> : pa \in InjectedParameters}

Programs ==
    {[items |-> it, code |-> sourceText(it), parameters |-> ps] :
        it \in UNION {[1..n -> Statements] : n \in 1..MaxItems}, ps \in ParameterLists}

\* Playground compiles: injectParametersIntoCode(code, parameters)
Inject ==
    /\ program # NoProgram
    /\ injected = NoOutput
    /\ injected' = injectParametersIntoCode(program.code, program.parameters)
    /\ UNCHANGED <<annotation, parsedParam, program, exceptText>>

InitText ==
    /\ \/ annotation \in Annotations /\ program = NoProgram
       \/ annotation = NoAnnotation /\ program \in Programs
    /\ parsedParam = NoParam
    /\ injected = NoOutput

\* the state the other specifications keep the texts in
TextUnused ==
    /\ annotation = NoAnnotation
    /\ parsedParam = NoParam
    /\ program = NoProgram
    /\ injected = NoOutput

NextText ==
    \/ ParseOptions
    \/ Inject


(***************************************************************************)
(* Playground: the compiledSketch memo and the renderer branch.            *)
(*                                                                         *)
(* A source text is described by what `new Function(..., wrappedCode)(...)`*)
(* does with it: body = "ok" (it evaluates), "syntaxError" (new Function   *)
(* throws), "throwsError" / "throwsValue" (its top level throws an Error / *)
(* a value that is no Error); and by whether it defines setup and draw.    *)
(***************************************************************************)
Bodies == {"ok", "syntaxError", "throwsError", "throwsValue"}
ProjectTypes == {"p5", "three"}
SourceTexts == [body : Bodies, hasSetup : BOOLEAN, hasDraw : BOOLEAN]

NullSketch == [kind |-> "null"]
NullError == [kind |-> "null"]

\* new Function(...)(...): the function the wrapped code returns
wrappedCode(type, c) ==
    IF type = "p5"
    THEN [kind |-> "p5 sketch", hasSetup |-> c.hasSetup, hasDraw |-> c.hasDraw]
    ELSE [kind |-> "three sketch", hasSetup |-> c.hasSetup, hasDraw |-> FALSE]

\* error instanceof Error ? formatError(error, code) : String(error)
errorMessage(c) ==
    IF c.body = "throwsValue" THEN "String(error)" ELSE "formatError(error, code)"

\* the memo's function without its try / catch
compileUnguarded(ed) ==
    IF ed.code.body = "ok"
    THEN [sketch |-> wrappedCode(ed.type, ed.code), error |-> NullError, threw |-> FALSE]
    ELSE [sketch |-> NullSketch, error |-> NullError, threw |-> TRUE]

\* the memo's function: [sketch |-> its value, error |-> currentError after
\* it, threw |-> an exception left it]
compile(ed) ==
    IF ed.code.body = "ok"
    THEN [sketch |-> wrappedCode(ed.type, ed.code), error |-> NullError, threw |-> FALSE]
    ELSE [sketch |-> NullSketch,
          error |-> [kind |-> "Code Error", text |-> errorMessage(ed.code)],
          threw |-> FALSE]

\* currentProject && compiledSketch ? <renderer sketch={compiledSketch}> : ...
rendererBranch(sketch, last) == sketch

\* Playground renders after the project changed: the memo is recomputed
\* and the branch rendered
Render(ed, last) ==
    LET r == compile(ed)
    IN  /\ editor' = ed
        /\ compiledSketch' = r.sketch
        /\ currentError' = r.error
        /\ shown' = IF r.threw THEN shown ELSE rendererBranch(r.sketch, last)
        /\ compileHist' = [last |-> "compile", threw |-> r.threw,
                           lastGood |-> IF r.sketch # NullSketch THEN r.sketch ELSE last]
        /\ UNCHANGED exceptCompile

\* the user edits the code (updateCode)
EditCode ==
    \E c \in SourceTexts \ {editor.code} :
        Render([editor EXCEPT !.code = c], compileHist.lastGood)

\* the seed or a parameter of the project changes (updateProject): the memo
\* depends on currentProject and is recomputed
UpdateProject == Render(editor, compileHist.lastGood)

\* another project is opened (loadProject)
LoadProject ==
    \E type \in ProjectTypes, c \in SourceTexts :
        /\ type # editor.type
        /\ Render([type |-> type, code |-> c], NullSketch)

\* a renderer reports an error: onError -> setError(`Render Error: ...`)
RendererError ==
    /\ shown # NullSketch
    /\ currentError' = [kind |-> "Render Error", text |-> "error.message"]
    /\ compileHist' = [compileHist EXCEPT !.last = "onError"]
    /\ UNCHANGED <<editor, compiledSketch, shown, exceptCompile>>

\* createProject(name, type) with the first render of the new project; the
\* default code evaluates and defines setup and draw
CompileStart(type) ==
    LET ed == [type |-> type, code |-> [body |-> "ok", hasSetup |-> TRUE, hasDraw |-> TRUE]]
        r == compile(ed)
    IN  /\ editor = ed
        /\ compiledSketch = r.sketch
        /\ currentError = r.error
        /\ shown = rendererBranch(r.sketch, NullSketch)
        /\ compileHist = [last |-> "compile", threw |-> r.threw, lastGood |-> r.sketch]

\* a project opened with any code (loadProject, importProject)
InitCompile ==
    \E type \in ProjectTypes, c \in SourceTexts :
        LET ed == [type |-> type, code |-> c]
            r == compile(ed)
        IN  /\ editor = ed
            /\ compiledSketch = r.sketch
            /\ currentError = r.error
            /\ shown = rendererBranch(r.sketch, NullSketch)
            /\ compileHist = [last |-> "compile", threw |-> r.threw, lastGood |-> r.sketch]

\* the state the other specifications keep the compiler in
CompileUnused == CompileStart("p5")

NextCompile ==
    \/ EditCode
    \/ UpdateProject
    \/ LoadProject
    \/ RendererError

\* the streams alone: the clock and the backends stay as constructed
RNGStart ==
    InitRNG /\ ClockUnused /\ RenderUnused /\ ParamsUnused /\ CompileUnused /\ TextUnused
    /\ PanelUnused

SpecRNG == RNGStart /\ [][NextRNG]_vars

\* the clock alone
TimelineStart ==
    InitClock /\ RNGUnused /\ RenderUnused /\ ParamsUnused /\ CompileUnused /\ TextUnused
    /\ PanelUnused

SpecClock == TimelineStart /\ [][NextClock]_vars

\* the backends, with the global stream they reseed and reset
RenderStart ==
    InitRender /\ RNGUnused /\ ClockUnused /\ ParamsUnused /\ CompileUnused /\ TextUnused
    /\ PanelUnused

SpecRender == RenderStart /\ [][NextRender]_vars

\* the parameters and their reconciliation
ParamsStart ==
    InitParams /\ RNGUnused /\ ClockUnused /\ RenderUnused /\ CompileUnused /\ TextUnused
    /\ PanelUnused

SpecParams == ParamsStart /\ [][NextParams]_vars

\* the compiler and the renderer branch
CompileInit ==
    InitCompile /\ RNGUnused /\ ClockUnused /\ RenderUnused /\ ParamsUnused /\ TextUnused
    /\ PanelUnused

SpecCompile == CompileInit /\ [][NextCompile]_vars

\* the parser's text functions
TextStart ==
    InitText /\ RNGUnused /\ ClockUnused /\ RenderUnused /\ ParamsUnused /\ CompileUnused
    /\ PanelUnused

SpecText == TextStart /\ [][NextText]_vars

\* the animation panel with its timelines
PanelStart ==
    InitPanel /\ RNGUnused /\ ClockUnused /\ RenderUnused /\ ParamsUnused /\ CompileUnused
    /\ TextUnused

SpecPanel == PanelStart /\ [][NextPanel]_vars

(***************************************************************************)
(* Properties of the rendering backends                                    *)
(***************************************************************************)

\* C3: in every frame the global stream is reset strictly before the
\* sketch's per-frame hook runs: a hook is always immediately preceded by a
\* reset in the same frame.
C3_ResetBeforeHook ==
    \A i \in DOMAIN frameTrace :
        frameTrace[i] = "hook" => (i > 1 /\ frameTrace[i - 1] = "reset")


(***************************************************************************)
(* Properties of the seeded stream                                         *)
(***************************************************************************)

\* C1: after reset(), whatever was drawn before, the values drawn since the
\* reset are exactly the values a freshly constructed stream with the same
\* seed draws.
C1_ResetReplaysFreshStream ==
    \A w \in Instances :
        rngHist[w].reset =>
            LET fresh == SeededRandomGenerator(TRUE, Inst(w).seed, Inst(w).seed)
            IN  drawn[w] = FreshDraws(fresh.rng, Len(drawn[w]))

\* a stream that drew, was reset, and drew MaxDraws values again
C1_Witness ==
    \E w \in Instances :
        rngHist[w].reset /\ rngHist[w].prior /\ Len(drawn[w]) = MaxDraws

\* C2: a stream constructed from a seed string, the empty string included,
\* has that string as its seed field, and two streams constructed from the
\* same seed string draw the same values.
C2_SeedIsSoleEntropy ==
    /\ \A w \in Instances : ctorArg[w].given => Inst(w).seed = ctorArg[w].seed
    /\ (ctorArg["global"].given /\ ctorArg["local"].given
          /\ ctorArg["global"].seed = ctorArg["local"].seed)
       => \A i \in 1..Min(Len(drawn["global"]), Len(drawn["local"])) :
             drawn["global"][i] = drawn["local"][i]

(***************************************************************************)
(* Properties of the animation clock                                       *)
(***************************************************************************)
Outstanding == Len(host.queue) + Len(host.running)

ClockState == ClockStateOf(timeline)

\* C4: after play, pause and then resume the clock is Playing and a
\* scheduled callback is outstanding (so that onTick fires again).
C4_ResumeReschedules ==
    clockHist.calls = <<[op |-> "resume", pre |-> "Paused", post |-> "Playing"]>>
        => (ClockState = "Playing" /\ timeline.animationId # Null /\ Outstanding >= 1)

\* C5: with loop = false, a tick whose elapsed time has reached the
\* duration is the final one: after it the clock is Idle and no scheduled
\* callback is outstanding, so onTick cannot fire before the next play().
C5_FinalTickStops ==
    (clockHist.overrun /\ ~timeline.loop)
        => (ClockState = "Idle" /\ timeline.animationId = Null /\ Outstanding = 0)

\* a non-looping clock whose last handler was such a tick, after onTick fired
C5_Witness ==
    clockHist.overrun /\ ~timeline.loop /\ tick.valid /\ tick.elapsed >= DurSteps(timeline)

\* C6: once stop() has been called, from any state and also from inside
\* onTick, the clock is Idle and no scheduled callback is outstanding until
\* the next play().
C6_StopSilences ==
    clockHist.stopped
        => (ClockState = "Idle" /\ timeline.animationId = Null /\ Outstanding = 0)

\* C7: at most one scheduled callback is outstanding, and animationId is
\* non-null exactly when one is.
C7_OneCallback ==
    /\ Outstanding <= 1
    /\ timeline.animationId # Null <=> Outstanding = 1

LegalStep(pre, post) ==
    \/ pre = post
    \/ <<pre, post>> \in {<<"Idle", "Playing">>, <<"Playing", "Paused">>,
                          <<"Playing", "Idle">>, <<"Paused", "Playing">>,
                          <<"Paused", "Idle">>}

\* C10: the clock starts Idle, isPaused implies isPlaying in every state,
\* and every state change made by an API call (external or from onTick, and
\* the stop() of the final tick) is one of Idle->Playing, Playing->Paused,
\* Playing->Idle, Paused->Playing, Paused->Idle.
C10_LegalTransitions ==
    /\ ClockState = "Idle"
    /\ [](/\ timeline.isPaused => timeline.isPlaying
          /\ \A i \in DOMAIN clockHist.calls :
                LegalStep(clockHist.calls[i].pre, clockHist.calls[i].post))

\* a pause made from inside onTick followed by the final tick's stop()
C10_Witness ==
    /\ Len(clockHist.calls) = 2
    /\ clockHist.calls[1].op = "pause" /\ clockHist.calls[1].post = "Paused"
    /\ clockHist.calls[2].pre = "Paused" /\ clockHist.calls[2].post = "Idle"

(***************************************************************************)
(* Properties of the reconciliation of parameters                          *)
(***************************************************************************)
schemaOf(c) == convertToProjectParameters(parseParametersFromCode(c))

UniqueNames(ps) == \A n \in ParamNames : NameCount(ps, n) <= 1

ValuesOf(ps, n) == {ps[i].value : i \in {j \in DOMAIN ps : ps[j].name = n}}

\* n is held and declared, and every held entry of that name has the kind
\* of every declaration of that name
KindUnchanged(before, schema, n) ==
    /\ find(before, n) # 0
    /\ find(schema, n) # 0
    /\ \A i \in DOMAIN before, j \in DOMAIN schema :
          (before[i].name = n /\ schema[j].name = n) => before[i].type = schema[j].type

\* C11: after a run of the effect (names distinct among the held parameters
\* and among the declarations), every name held and declared whose declared
\* kind differs from the held kind is held with the declared kind and the
\* declaration's default value.
C11_KindChangeResets ==
    (lastPass.valid /\ UniqueNames(lastPass.before) /\ UniqueNames(schemaOf(lastPass.code)))
    => LET schema == schemaOf(lastPass.code)
       IN  \A j \in DOMAIN schema :
             LET e == find(lastPass.before, schema[j].name)
                 a == find(lastPass.after, schema[j].name)
             IN  (e # 0 /\ lastPass.before[e].type # schema[j].type)
                 => (a # 0 /\ lastPass.after[a].type = schema[j].type
                           /\ lastPass.after[a].value = schema[j].value)

\* C12: after a run of the effect, for every name held and declared with
\* the kind unchanged, the values held under that name are the values held
\* before, whatever else changed.
C12_ValueKept ==
    lastPass.valid
    => \A n \in ParamNames :
          KindUnchanged(lastPass.before, schemaOf(lastPass.code), n)
          => ValuesOf(lastPass.after, n) = ValuesOf(lastPass.before, n)

\* a run that replaced the definition of a parameter holding a user value,
\* its kind unchanged and its constraint changed
C12_Witness ==
    /\ lastPass.valid
    /\ \E n \in ParamNames :
         /\ KindUnchanged(lastPass.before, schemaOf(lastPass.code), n)
         /\ <<"remove", n>> \in {lastPass.calls[i] : i \in DOMAIN lastPass.calls}
         /\ ValuesOf(lastPass.before, n) = {"5"}
         /\ lastPass.after[find(lastPass.after, n)].min
              # lastPass.before[find(lastPass.before, n)].min

\* C13: reconciling the result of a run against the same code changes
\* nothing and issues no addParameter or removeParameter.
C13_Idempotent ==
    lastPass.valid
    => LET again == reconcile(lastPass.after, lastPass.code)
       IN  again.ps = lastPass.after /\ again.calls = <<>>

\* the same with names distinct among the held parameters and the declarations
C13_IdempotentUnique ==
    (lastPass.valid /\ UniqueNames(lastPass.before) /\ UniqueNames(schemaOf(lastPass.code)))
    => LET again == reconcile(lastPass.after, lastPass.code)
       IN  again.ps = lastPass.after /\ again.calls = <<>>

C15_LastGoodKeepsRendering ==
    (compileHist.last = "compile" /\ editor.code.body # "ok"
        /\ compileHist.lastGood # NullSketch)
    => (shown = compileHist.lastGood /\ currentError # NullError)


(***************************************************************************)
(* Properties of the backends' error handling and teardown                 *)
(***************************************************************************)

\* C16: an exception thrown by a sketch hook while a backend runs it (the
\* one-time setup hook or the per-frame hook, in either mode) is caught by the
\* backend and reported through onError; it never leaves the handler uncaught.
C16_HookErrorsReported ==
    \A i \in DOMAIN frameTrace :
        frameTrace[i] = "throw" =>
            (i < Len(frameTrace) /\ frameTrace[i + 1] = "onError")


\* the refs of ThreeRenderer without the history of invocations
Refs(t) == [t EXCEPT !.teardownCalls = 0]

C18_ResumeKeepsPosition ==
    clockHist.resumed.valid =>
        /\ timeline.startTime = clockHist.resumed.preStart + clockHist.resumed.gap
        /\ getNormalizedTime(timeline).num >= 0

\* C19: after stop(), from any state, the clock is Idle and its cursor is
\* reset: getNormalizedTime() and getCurrentFrame() read 0.
C19_StopResets ==
    (clockHist.calls # <<>> /\ clockHist.calls[Len(clockHist.calls)].op = "stop") =>
        /\ ClockStateOf(timeline) = "Idle"
        /\ getNormalizedTime(timeline).num = 0
        /\ getCurrentFrame(timeline) = 0

\* a step that is a seekTo(k / SeekDen) called from outside a frame
SeekStep ==
    /\ host.running = <<>>
    /\ clockHist'.calls # <<>>
    /\ clockHist'.calls[1].op = "seekTo"

\* C20: seekTo(t), t in [0,1), changes only startTime (isPlaying, isPaused,
\* the cursor, the outstanding callbacks and their onFrame stay as they are,
\* in every state), sets it so that elapsed / duration = t at the instant of
\* the call, and a tick delivered at that instant reports normalized time t.
C20_SeekSetsOnlyStart ==
    /\ [][SeekStep =>
            /\ timeline' = [timeline EXCEPT !.startTime = timeline'.startTime]
            /\ host' = host
            /\ (now - timeline'.startTime) * SeekDen
                   = (clockHist'.seek - 1) * DurSteps(timeline)]_vars
    /\ [](tick.valid /\ tick.afterSeek # 0 =>
            tick.time.num * SeekDen = (tick.afterSeek - 1) * tick.time.den)

\* onFrame has observed the tick that followed seekTo(1 / SeekDen) at a later
\* instant than the start of the run
C20_Witness ==
    /\ tick.valid
    /\ tick.afterSeek = 2
    /\ now > 0
    /\ tick.time.num * SeekDen = tick.time.den


(***************************************************************************)
(* Properties of the Canvas2D call contract                                *)
(***************************************************************************)

\* the handler that has just run was a frame of the p5 loop
P5FrameRan ==
    /\ p5Instance.live /\ p5Instance.didSetup
    /\ frameTrace # <<>>
    /\ frameTrace[1] \in {"reset", "hook"}

HookCount == Cardinality({i \in DOMAIN frameTrace : frameTrace[i] = "hook"})

\* C21: in Canvas2D mode, once p5 has run its setup phase, the user's setup
\* has been invoked exactly once when the sketch defines it, and every frame
\* after that invokes the user's draw once when the sketch defines it.
C21_SetupOnceDrawPerFrame ==
    /\ (p5Instance.live /\ p5Instance.didSetup /\ project.hasSetup)
           => p5Instance.userSetups = 1
    /\ (P5FrameRan /\ project.hasDraw) => HookCount = 1


(***************************************************************************)
(* Properties of shuffle                                                   *)
(***************************************************************************)

Occurrences(seq, v) == Cardinality({i \in DOMAIN seq : seq[i] = v})

SameMultiset(a, b) ==
    /\ Len(a) = Len(b)
    /\ \A i \in DOMAIN a : Occurrences(a, a[i]) = Occurrences(b, a[i])

\* C22: for every input sequence and every stream state, shuffle returns a
\* permutation of its input (same length, same multiset) and leaves the
\* caller's sequence as it was.
C22_ShufflePermutes ==
    result.op = "shuffle" =>
        /\ SameMultiset(result.arg, result.val)
        /\ result.after = result.arg

\* a shuffle of a sequence with a repeated element returned another order
C22_Witness ==
    /\ result.op = "shuffle"
    /\ Len(result.arg) = 3
    /\ result.val # result.arg
    /\ result.after = result.arg


(***************************************************************************)
(* Properties of the @param bracket                                        *)
(***************************************************************************)

\* the entries of the annotation with this key
EntriesOf(key) ==
    {annotation.entries[i] : i \in {j \in DOMAIN annotation.entries :
                                        annotation.entries[j].key = key}}

\* the value of an entry as it is written
ValueText(e) == joinWith(Words(e.list), <<",">>)

\* C23: for a select parameter the parsed default is the explicit default=
\* value whenever one is given (here: a one-word value), whether default
\* comes before or after options, and the first entry of options only when
\* no default is given.
C23_ExplicitDefaultWins ==
    (parsedParam # NoParam /\ annotation.type = "select") =>
        /\ \A e \in EntriesOf("default") :
               Len(e.list) = 1 => parsedParam.defaultValue = ValueText(e)
        /\ (EntriesOf("default") = {}) =>
               \A e \in EntriesOf("options") : parsedParam.defaultValue = <<e.list[1]>>

\* C27: the bracket keeps comma-separated values whole: options=red,blue,green
\* yields the three options, and default=0,5,0 on a vector3 yields the default
\* "0,5,0", with the keys after it (step=0.1) read as well.
C27_CommaValuesWhole ==
    parsedParam # NoParam =>
        /\ \A e \in EntriesOf("options") : parsedParam.options = Words(e.list)
        /\ annotation.type = "vector3" =>
               \A e \in EntriesOf("default") : parsedParam.defaultValue = ValueText(e)
        /\ \A e \in EntriesOf("step") : parsedParam.step = parseFloat(ValueText(e))


(***************************************************************************)
(* Properties of the injection                                             *)
(***************************************************************************)

\* the parameters with this name
Named(params, name) ==
    {params[i] : i \in {j \in DOMAIN params : params[j].name = name}}

\* the source text with the initializer of every declaration of a parameter
\* name replaced by the parameter's serialized value, nothing else touched
RECURSIVE rewritten(_, _)
rewritten(items, params) ==
    IF items = <<>> THEN <<>>
    ELSE LET st == Head(items)
             ps == Named(params, st.name)
             init == IF st.kw # "none" /\ ps # {}
                     THEN valueText(CHOOSE q \in ps : TRUE) ELSE st.init
         IN  lineText(st, init) \o rewritten(Tail(items), params)

\* C24: inject rewrites the initializer of every const/let/var declaration
\* whose name is exactly a parameter name, nested ones included, to the
\* serialized value and leaves every other symbol of the source as it is
\* (other names, names that begin with a parameter name, the rest of the
\* line); the parameters are what they were.
C24_InjectRewritesInitializers ==
    injected # NoOutput =>
        /\ injected.code = rewritten(program.items, program.parameters)
        /\ injected.parameters = program.parameters

(***************************************************************************)
(* C25: a call that is illegal in the clock's state -- play() while        *)
(* Playing, pause() while Idle or Paused, resume() while Idle or Playing   *)
(* -- changes nothing: the flags, startTime, currentTime, animationId, the *)
(* callbacks the host holds and the onFrame they carry are what they were  *)
(* before the call, whether the call comes from the page or from onFrame   *)
(* during a tick.                                                          *)
(***************************************************************************)
IllegalCall(c) ==
    \/ c.op = "play" /\ c.pre = "Playing"
    \/ c.op = "pause" /\ c.pre \in {"Idle", "Paused"}
    \/ c.op = "resume" /\ c.pre \in {"Idle", "Playing"}

IllegalCallMade ==
    /\ clockHist'.calls # <<>>
    /\ IllegalCall(clockHist'.calls[1])

C25_IllegalCallsAreNoOps ==
    [][IllegalCallMade =>
         IF host.running = <<>>
         THEN timeline' = timeline /\ host' = host
         ELSE Head(host.running).cb => ~clockHist'.apiSince]_vars

C25_Witness ==
    /\ clockHist.calls # <<>>
    /\ IllegalCall(clockHist.calls[1])
    /\ clockHist.calls[1].op = "play"
    /\ timeline.animationId # Null
    /\ host.queue # <<>>
    /\ timeline.currentTime > timeline.startTime

C25_WitnessPause ==
    /\ clockHist.calls # <<>>
    /\ clockHist.calls[1] = [op |-> "pause", pre |-> "Paused", post |-> "Paused"]

C25_WitnessResume ==
    /\ clockHist.calls # <<>>
    /\ clockHist.calls[1] = [op |-> "resume", pre |-> "Playing", post |-> "Playing"]
    /\ host.running # <<>>

(***************************************************************************)
(* C26: on a looping timeline the fraction handed to the easing function   *)
(* at a tick is (elapsed / duration) mod 1: a tick that comes d after the  *)
(* end of the period, 0 < d < duration, sees d / duration.                 *)
(***************************************************************************)
C26_LoopWrapsBeforeClamp ==
    (tick.valid /\ timeline.loop /\ tick.elapsed >= 0) =>
        /\ tick.time.den = DurSteps(timeline)
        /\ tick.time.num = tick.elapsed % DurSteps(timeline)

(***************************************************************************)
(* Properties of the animation panel                                       *)
(***************************************************************************)

HostEntries(h) == {h.queue[i] : i \in DOMAIN h.queue} \cup {h.running[i] : i \in DOMAIN h.running}

\* C28: at most one timeline delivers ticks: every callback the host holds
\* was registered by the timeline the panel holds now, every
\* 'animationFrame' event came from the timeline the panel held at that
\* moment, and no event is emitted between a press of Stop and the next
\* press of Play.
C28_SingleTimelineTicks ==
    /\ \A e \in HostEntries(phost) : Owner(e.id) = panel.timeline
    /\ emitted.valid => (emitted.current /\ ~emitted.afterStop)

\* C30: after every panel action and every tick the panel's isPlaying flag
\* equals getIsPlaying() of the timeline it holds (and is false without a
\* timeline).
C30_PanelFlagTracksTimeline ==
    panel.isPlaying = (panel.timeline # 0 /\ getIsPlaying(timelines[panel.timeline]))

(***************************************************************************)
(* C29: in Scene3D mode the teardown function a sketch's setup returned is *)
(* invoked once, when that sketch instance is torn down, and not again: not*)
(* on a later rebuild, not on unmount, not for a later sketch that         *)
(* returned none.                                                          *)
(***************************************************************************)
C29_TeardownOnce ==
    /\ three.teardownCalls <= 1
    /\ Occurrences(frameTrace, "cleanup") <= 1

====